---- MODULE Spec2Model ----
(***************************************************************************)
(* MovieDAO of api/dao/movies.py: a data-access object over a Neo4j        *)
(* driver.  The model holds the graph store the queries read, the driver   *)
(* resources a call uses (session, read transaction, queries run on the    *)
(* transaction) and the position of the one call in progress.              *)
(*                                                                         *)
(* The Cypher statements of the source are modelled by what they compute   *)
(* on the store: MATCH / WHERE exists / ORDER BY / SKIP / LIMIT, the map   *)
(* projection and the three-valued IN.  ORDER BY fixes the order of rows   *)
(* only up to the sort key: rows with equal keys come in any order, and    *)
(* each query run chooses one.                                             *)
(***************************************************************************)
EXTENDS Integers, Sequences, FiniteSets

\* ------------------------------------------------------------------ bounds
MaxNodes == 3      \* Movie nodes in the store
MaxVal == 2        \* titles are drawn from 1..MaxVal
MaxPage == 2       \* limit and skip are drawn from 0..MaxPage
PopularLen == 3    \* rows of the sample list `popular`

\* ------------------------------------------------------------- data values
\* Cypher null / a property the node does not have.
NULL == 0

\* Python None as a user_id.
None == "None"

\* "u1" is the userId of a User node; "ghost" matches no User node.
ExistingUsers == {"u1"}
UserIds == {None, "u1", "ghost"}

\* Movie attributes a caller may sort on, and the two Cypher directions.
SortAttrs == {"title", "tmdbId"}
Orders == {"ASC", "DESC"}
\* What a caller can pass: `sort` and `order` are plain strings.
SortInputs == SortAttrs \cup {"bogus"}
OrderInputs == Orders \cup {"SIDEWAYS"}

Range(s) == {s[i] : i \in 1..Len(s)}
Min(a, b) == IF a <= b THEN a ELSE b
Max(a, b) == IF a >= b THEN a ELSE b

\* ------------------------------------------------------------------- store
\* Node i of the store: tmdbId is the node's unique external identifier
\* (i itself) or missing, title a value or missing, favBy the users with a
\* HAS_FAVORITE relationship to the node.
NodeOf(i) ==
    [node : {i}, tmdbId : {NULL, i}, title : 0..MaxVal,
     favBy : SUBSET ExistingUsers]

\* The stores differ only by the names of their nodes, so one store per
\* multiset of node shapes is enough: shapes come in non-decreasing order.
Shape(n) ==
    (IF n.tmdbId = NULL THEN 0 ELSE 1)
    + 2 * (IF n.favBy = {} THEN 0 ELSE 1)
    + 4 * n.title

IsStore(st) ==
    /\ \A i \in 1..MaxNodes : st[i] \in NodeOf(i)
    /\ \A i \in 1..(MaxNodes - 1) : Shape(st[i]) <= Shape(st[i + 1])

Stores == {st \in [1..MaxNodes -> UNION {NodeOf(i) : i \in 1..MaxNodes}] : IsStore(st)}

\* m.`attr` in Cypher: the property, or null when the node has none.
Prop(n, attr) ==
    IF attr = "title" THEN n.title
    ELSE IF attr = "tmdbId" THEN n.tmdbId
    ELSE NULL

\* --------------------------------------------------------- Cypher semantics
\* x IN list, three-valued: a null operand, or a null element when x is not
\* found, makes the answer null; `null IN []` is false.
CypherIn(x, list) ==
    IF list = <<>> THEN "false"
    ELSE IF x = NULL THEN "null"
    ELSE IF x \in Range(list) THEN "true"
    ELSE IF NULL \in Range(list) THEN "null"
    ELSE "false"

\* The elements of a set of node indices in scan order.
ScanOrder(S) ==
    CHOOSE p \in [1..Cardinality(S) -> S] :
        \A i, j \in 1..Cardinality(S) : i < j => p[i] < p[j]

\* A slip: the `user_id is None` early return is missing, so the query is
\* run with a null userId (and matches nothing).
GetUserFavoritesUnguarded(st, user_id) ==
    LET linked == ScanOrder({i \in 1..MaxNodes : user_id \in st[i].favBy})
    IN  [ran |-> TRUE,
         ids |-> [k \in 1..Len(linked) |-> Prop(st[linked[k]], "tmdbId")]]

\* get_user_favorites(tx, user_id): without a user_id no query is run and
\* the list is empty; otherwise one query returns m.tmdbId of every node the
\* user has a HAS_FAVORITE relationship to.
GetUserFavorites(st, user_id) ==
    IF user_id = None
    THEN [ran |-> FALSE, ids |-> <<>>]
    ELSE LET linked == ScanOrder({i \in 1..MaxNodes : user_id \in st[i].favBy})
         IN  [ran |-> TRUE,
              ids |-> [k \in 1..Len(linked) |-> Prop(st[linked[k]], "tmdbId")]]

\* MATCH (m:Movie) WHERE exists(m.`sort`)
Matched(st, sort) == {i \in 1..MaxNodes : Prop(st[i], sort) # NULL}

\* A slip: the direction is dropped and every query sorts ascending.
InOrderAscending(a, b, order) == a <= b

\* ORDER BY m.`sort` ASC | DESC on two keys.
InOrder(a, b, order) == IF order = "DESC" THEN a >= b ELSE a <= b

\* Every row order ORDER BY allows: equal keys are not ordered further.
Orderings(st, sort, order) ==
    LET M == Matched(st, sort)
        n == Cardinality(M)
    IN  {p \in [1..n -> M] :
            /\ \A i, j \in 1..n : i # j => p[i] # p[j]
            /\ \A i, j \in 1..n :
                   i < j => InOrder(Prop(st[p[i]], sort), Prop(st[p[j]], sort), order)}

\* SKIP $skip LIMIT $limit
SkipLimit(rows, skip, limit) ==
    SubSeq(rows, skip + 1, Min(Len(rows), skip + limit))

\* A slip: the projection never consults $favorites.
ProjectWithoutFavorite(n, favs) ==
    [node |-> n.node, tmdbId |-> n.tmdbId, title |-> n.title,
     favorite |-> "false"]

\* RETURN m { .*, favorite: m.tmdbId IN $favorites } AS movie
Project(n, favs) ==
    [node |-> n.node, tmdbId |-> n.tmdbId, title |-> n.title,
     favorite |-> CypherIn(n.tmdbId, favs)]

\* The lists the movie query of `all` can return.
MovieRows(st, sort, order, limit, skip, favs) ==
    {[k \in 1..Len(q) |-> Project(st[q[k]], favs)] :
        q \in {SkipLimit(p, skip, limit) : p \in Orderings(st, sort, order)}}

\* `order` is pasted into the statement after the sort key: anything but a
\* direction keyword is a syntax error when the statement is run.  `sort` is
\* pasted between backquotes, where any name is a property key.
CypherParses(sort, order) == order \in Orders

\* ----------------------------------------------------------- sample data
\* api.data.popular: a fixed list of sample movie rows.
popular ==
    [i \in 1..PopularLen |->
        [node |-> 100 + i, tmdbId |-> 100 + i, title |-> 1, favorite |-> "false"]]

\* api.data.goodfellas: one fixed sample movie.
goodfellas ==
    [node |-> 100, tmdbId |-> 100, title |-> 1, favorite |-> "false"]

\* seq[start:stop] of Python for non-negative indices.
PySlice(seq, start, stop) ==
    SubSeq(seq, Min(start, Len(seq)) + 1, Min(stop, Len(seq)))

\* ------------------------------------------------------------------- state
VARIABLES store, pc, call, sessionsAcquired, sessionsOpen, txCount, queries,
          favorites, result, error, fault, pages, full, fullDone

vars == <<store, pc, call, sessionsAcquired, sessionsOpen, txCount, queries,
          favorites, result, error, fault, pages, full, fullDone>>

Unset == [kind |-> "unset", rows |-> <<>>]
ListOf(rows) == [kind |-> "list", rows |-> rows]
NoneValue == [kind |-> "None", rows |-> <<>>]

NoCall ==
    [method |-> "", sort |-> "", order |-> "", limit |-> 0, skip |-> 0,
     user_id |-> None]

Init ==
    /\ store \in Stores
    /\ pc = "idle"
    /\ call = NoCall
    /\ sessionsAcquired = 0
    /\ sessionsOpen = 0
    /\ txCount = 0
    /\ queries = <<>>
    /\ favorites = <<>>
    /\ result = Unset
    /\ error = ""
    /\ fault = "none"
    /\ pages = <<>>
    /\ full = <<>>
    /\ fullDone = FALSE

\* ------------------------------------------------------------ MovieDAO.all
FavoritesQuery == [text |-> "favorites", sort |-> "", order |-> ""]
MoviesQuery(sort, order) == [text |-> "movies", sort |-> sort, order |-> order]

\* Leaving `with self.driver.session() as session:` closes the session.
ExitSession(open) == open - 1

\* A slip: a try/except around the body that answers an empty list.
SwallowError(err) == [pc |-> "returned", result |-> ListOf(<<>>), error |-> ""]

\* An exception raised under `all` is not caught anywhere in it: it leaves
\* the call, which returns no value.
Propagate(err) == [pc |-> "raised", result |-> Unset, error |-> err]

CallAll(sort, order, limit, skip, user_id) ==
    /\ pc = "idle"
    /\ pc' = "open"
    /\ call' = [method |-> "all", sort |-> sort, order |-> order,
                limit |-> limit, skip |-> skip, user_id |-> user_id]
    /\ UNCHANGED <<store, sessionsAcquired, sessionsOpen, txCount, queries,
                   favorites, result, error, fault, pages, full, fullDone>>

\* self.driver.session(): the driver hands out a session or raises.
OpenSession(fail) ==
    /\ pc = "open"
    /\ IF fail
       THEN LET out == Propagate("ServiceUnavailable")
            IN  /\ fault' = "session"
                /\ pc' = out.pc
                /\ result' = out.result
                /\ error' = out.error
                /\ UNCHANGED <<sessionsAcquired, sessionsOpen>>
       ELSE /\ sessionsAcquired' = sessionsAcquired + 1
            /\ sessionsOpen' = sessionsOpen + 1
            /\ pc' = "tx"
            /\ UNCHANGED <<result, error, fault>>
    /\ UNCHANGED <<store, call, txCount, queries, favorites, pages, full, fullDone>>

\* session.execute_read(get_movies, ...) starts the read transaction and
\* get_movies begins with get_user_favorites(tx, user_id).
RunFavorites(fail) ==
    /\ pc = "tx"
    /\ LET f == GetUserFavorites(store, call.user_id)
       IN  /\ fail => f.ran
           /\ txCount' = txCount + 1
           /\ queries' = IF f.ran THEN Append(queries, FavoritesQuery) ELSE queries
           /\ IF fail
              THEN LET out == Propagate("ServiceUnavailable")
                   IN  /\ fault' = "favorites"
                       /\ pc' = out.pc
                       /\ result' = out.result
                       /\ error' = out.error
                       /\ sessionsOpen' = ExitSession(sessionsOpen)
                       /\ UNCHANGED favorites
              ELSE /\ favorites' = f.ids
                   /\ pc' = "movies"
                   /\ UNCHANGED <<result, error, fault, sessionsOpen>>
    /\ UNCHANGED <<store, call, sessionsAcquired, pages, full, fullDone>>

\* The rest of get_movies: format the statement, tx.run it, build the list
\* of movies; then the transaction ends, the `with` block is left and the
\* list returned.
RunMovies(fail) ==
    /\ pc = "movies"
    /\ queries' = Append(queries, MoviesQuery(call.sort, call.order))
    /\ sessionsOpen' = ExitSession(sessionsOpen)
    /\ IF fail \/ ~CypherParses(call.sort, call.order)
       THEN LET out == Propagate(IF fail THEN "ServiceUnavailable"
                                         ELSE "CypherSyntaxError")
            IN  /\ fault' = "movies"
                /\ pc' = out.pc
                /\ result' = out.result
                /\ error' = out.error
       ELSE /\ \E rows \in MovieRows(store, call.sort, call.order, call.limit,
                                     call.skip, favorites) :
                   result' = ListOf(rows)
            /\ pc' = "returned"
            /\ UNCHANGED <<error, fault>>
    /\ UNCHANGED <<store, call, sessionsAcquired, txCount, favorites, pages,
                   full, fullDone>>

\* ------------------------------------------------- the other public methods
StubCall(method, limit, skip) ==
    [method |-> method, sort |-> "title", order |-> "ASC", limit |-> limit,
     skip |-> skip, user_id |-> None]

\* get_by_genre defines a nested function `all` and never calls it: the
\* body ends without a return statement, so the call returns None.
GetByGenre(limit, skip) ==
    /\ pc = "idle"
    /\ pc' = "returned"
    /\ call' = StubCall("get_by_genre", limit, skip)
    /\ result' = NoneValue
    /\ UNCHANGED <<store, sessionsAcquired, sessionsOpen, txCount, queries,
                   favorites, error, fault, pages, full, fullDone>>

\* return popular[skip:limit]
GetForActor(limit, skip) ==
    /\ pc = "idle"
    /\ pc' = "returned"
    /\ call' = StubCall("get_for_actor", limit, skip)
    /\ result' = ListOf(PySlice(popular, skip, limit))
    /\ UNCHANGED <<store, sessionsAcquired, sessionsOpen, txCount, queries,
                   favorites, error, fault, pages, full, fullDone>>

\* return popular[skip:limit]
GetForDirector(limit, skip) ==
    /\ pc = "idle"
    /\ pc' = "returned"
    /\ call' = StubCall("get_for_director", limit, skip)
    /\ result' = ListOf(PySlice(popular, skip, limit))
    /\ UNCHANGED <<store, sessionsAcquired, sessionsOpen, txCount, queries,
                   favorites, error, fault, pages, full, fullDone>>

\* return goodfellas
FindById ==
    /\ pc = "idle"
    /\ pc' = "returned"
    /\ call' = StubCall("find_by_id", 0, 0)
    /\ result' = [kind |-> "record", rows |-> <<goodfellas>>]
    /\ UNCHANGED <<store, sessionsAcquired, sessionsOpen, txCount, queries,
                   favorites, error, fault, pages, full, fullDone>>

\* return popular[skip:limit]
GetSimilarMovies(limit, skip) ==
    /\ pc = "idle"
    /\ pc' = "returned"
    /\ call' = StubCall("get_similar_movies", limit, skip)
    /\ result' = ListOf(PySlice(popular, skip, limit))
    /\ UNCHANGED <<store, sessionsAcquired, sessionsOpen, txCount, queries,
                   favorites, error, fault, pages, full, fullDone>>

\* ------------------------------------------------------- a paginating caller
\* A caller that reads the movies page by page, all(sort, order, L, S) for
\* S = 0, L, 2L, ..., and also in one piece, all(sort, order, T, 0), on a
\* store nobody writes to.  Each fetch is one whole call of `all` with a
\* driver that does not fail.
AllReturns(st, c) ==
    MovieRows(st, c.sort, c.order, c.limit, c.skip,
              GetUserFavorites(st, c.user_id).ids)

AllQueries(c) ==
    (IF GetUserFavorites(store, c.user_id).ran THEN <<FavoritesQuery>> ELSE <<>>)
    \o <<MoviesQuery(c.sort, c.order)>>

StartPaging(sort, order, limit, user_id) ==
    /\ pc = "idle"
    /\ pc' = "paging"
    /\ call' = [method |-> "all", sort |-> sort, order |-> order,
                limit |-> limit, skip |-> 0, user_id |-> user_id]
    /\ UNCHANGED <<store, sessionsAcquired, sessionsOpen, txCount, queries,
                   favorites, result, error, fault, pages, full, fullDone>>

FetchPage ==
    /\ pc = "paging"
    /\ call.skip < MaxNodes
    /\ \E rows \in AllReturns(store, call) :
           /\ result' = ListOf(rows)
           /\ pages' = pages \o rows
    /\ call' = [call EXCEPT !.skip = call.skip + call.limit]
    /\ sessionsAcquired' = sessionsAcquired + 1
    /\ sessionsOpen' = ExitSession(sessionsOpen + 1)
    /\ txCount' = txCount + 1
    /\ queries' = AllQueries(call)
    /\ favorites' = GetUserFavorites(store, call.user_id).ids
    /\ UNCHANGED <<store, pc, error, fault, full, fullDone>>

FetchFull(total) ==
    /\ pc = "paging"
    /\ ~fullDone
    /\ LET c == [call EXCEPT !.limit = total, !.skip = 0]
       IN  /\ \E rows \in AllReturns(store, c) :
                  /\ result' = ListOf(rows)
                  /\ full' = rows
           /\ queries' = AllQueries(c)
    /\ fullDone' = TRUE
    /\ sessionsAcquired' = sessionsAcquired + 1
    /\ sessionsOpen' = ExitSession(sessionsOpen + 1)
    /\ txCount' = txCount + 1
    /\ favorites' = GetUserFavorites(store, call.user_id).ids
    /\ UNCHANGED <<store, pc, call, error, fault, pages>>

\* --------------------------------------------------------- specifications
\* `all` called with a sort attribute and a direction, on a driver that may
\* fail at each of its operations.
Next ==
    \/ \E sort \in SortAttrs, order \in Orders, limit \in 0..MaxPage,
          skip \in 0..MaxPage, user_id \in UserIds :
           CallAll(sort, order, limit, skip, user_id)
    \/ \E fail \in BOOLEAN : OpenSession(fail)
    \/ \E fail \in BOOLEAN : RunFavorites(fail)
    \/ \E fail \in BOOLEAN : RunMovies(fail)

Spec == Init /\ [][Next]_vars

\* Every public method, with any strings as `sort` and `order`.
NextFull ==
    \/ \E sort \in SortInputs, order \in OrderInputs, limit \in 0..MaxPage,
          skip \in 0..MaxPage, user_id \in UserIds :
           CallAll(sort, order, limit, skip, user_id)
    \/ \E fail \in BOOLEAN : OpenSession(fail)
    \/ \E fail \in BOOLEAN : RunFavorites(fail)
    \/ \E fail \in BOOLEAN : RunMovies(fail)
    \/ \E limit \in 0..MaxPage, skip \in 0..MaxPage : GetByGenre(limit, skip)
    \/ \E limit \in 0..MaxPage, skip \in 0..MaxPage : GetForActor(limit, skip)
    \/ \E limit \in 0..MaxPage, skip \in 0..MaxPage : GetForDirector(limit, skip)
    \/ FindById
    \/ \E limit \in 0..MaxPage, skip \in 0..MaxPage : GetSimilarMovies(limit, skip)

SpecFull == Init /\ [][NextFull]_vars

\* The paginating caller.
NextPages ==
    \/ \E sort \in SortAttrs, order \in Orders, limit \in 1..MaxPage,
          user_id \in UserIds :
           StartPaging(sort, order, limit, user_id)
    \/ FetchPage
    \/ \E total \in 0..MaxNodes : FetchFull(total)

SpecPages == Init /\ [][NextPages]_vars

\* ------------------------------------------------------------------ claims
AllReturned == pc = "returned" /\ call.method = "all"
Terminal == pc \in {"returned", "raised"}
Linked(user_id) == {i \in 1..MaxNodes : user_id \in store[i].favBy}
Stubs == {"get_for_actor", "get_for_director", "get_similar_movies"}
PublicMethods ==
    {"all", "get_by_genre", "get_for_actor", "get_for_director", "find_by_id",
     "get_similar_movies"}

\* C1: all(sort, order, limit, skip) returns a list of at most `limit`
\* records, each having the `sort` attribute, in non-decreasing order of it
\* for ASC and non-increasing for DESC, no node and no tmdbId twice.
C1_AllSortedPage ==
    AllReturned =>
        LET r == result.rows
        IN  /\ result.kind = "list"
            /\ Len(r) <= call.limit
            /\ \A k \in 1..Len(r) : Prop(r[k], call.sort) # NULL
            /\ \A i, j \in 1..Len(r) :
                   i < j =>
                       IF call.order = "ASC"
                       THEN Prop(r[i], call.sort) <= Prop(r[j], call.sort)
                       ELSE Prop(r[i], call.sort) >= Prop(r[j], call.sort)
            /\ \A i, j \in 1..Len(r) :
                   i # j =>
                       /\ r[i].node # r[j].node
                       /\ r[i].tmdbId # NULL => r[i].tmdbId # r[j].tmdbId

\* A descending page of two titled movies out of a store that also holds a
\* movie without a title.
C1_Witness ==
    /\ AllReturned
    /\ call.sort = "title"
    /\ call.order = "DESC"
    /\ Len(result.rows) = 2
    /\ result.rows[1].title > result.rows[2].title
    /\ \E i \in 1..MaxNodes : store[i].title = NULL

\* C2: the pages all(sort, order, L, S), S = 0, L, 2L, ..., put end to end,
\* agree with all(sort, order, T, 0) on their common length, hold no movie
\* twice, and once every page is read hold every movie that has the sort
\* attribute -- also when movies share a value of the sort attribute.
C2_PaginationComposes ==
    pc = "paging" =>
        /\ fullDone =>
               LET k == Min(Len(pages), Len(full))
               IN  SubSeq(pages, 1, k) = SubSeq(full, 1, k)
        /\ \A i, j \in 1..Len(pages) : i # j => pages[i].node # pages[j].node
        /\ call.skip >= MaxNodes =>
               \A n \in Matched(store, call.sort) :
                   \E i \in 1..Len(pages) : pages[i].node = n

C4_FavoriteIsBoolean ==
    /\ AllReturned =>
           \A k \in 1..Len(result.rows) :
               /\ result.rows[k].favorite \in {"true", "false"}
               /\ call.user_id = None => result.rows[k].favorite = "false"
    /\ (call.method = "all" /\ call.user_id = None /\ pc = "raised") =>
           fault # "none"

\* C5: get_user_favorites runs no query and returns an empty list without a
\* user_id; with one it runs exactly one query and returns one m.tmdbId per
\* movie the user has a HAS_FAVORITE relationship to, none for a user id
\* that matches no User node.
C5_UserFavorites ==
    (call.method = "all" /\ pc = "movies") =>
        /\ call.user_id = None => favorites = <<>> /\ queries = <<>>
        /\ call.user_id # None =>
               /\ queries = <<FavoritesQuery>>
               /\ Len(favorites) = Cardinality(Linked(call.user_id))
               /\ Range(favorites) = {store[i].tmdbId : i \in Linked(call.user_id)}
        /\ call.user_id \notin ExistingUsers => favorites = <<>>

\* get_user_favorites has answered a user with two favorites.
C5_Witness ==
    /\ call.method = "all"
    /\ pc = "movies"
    /\ call.user_id = "u1"
    /\ Len(favorites) = 2
    /\ NULL \notin Range(favorites)

\* C6: every public method, by the time it returns or raises, has acquired
\* exactly one session (unless acquiring it is what failed), run exactly one
\* read transaction in it and released it; `all` runs the favorites query
\* before the movie query.
C6_OneSessionOneTransaction ==
    (Terminal /\ call.method \in PublicMethods /\ fault # "session") =>
        /\ sessionsAcquired = 1
        /\ txCount = 1
        /\ sessionsOpen = 0
        /\ \A i, j \in 1..Len(queries) :
               (queries[i].text = "favorites" /\ queries[j].text = "movies") => i < j

\* C7: `all` called with a sort outside the Movie attributes or an order
\* outside {ASC, DESC} fails with a validation error and runs no query.
C7_InvalidSortRejected ==
    (call.method = "all" /\ (call.sort \notin SortAttrs \/ call.order \notin Orders)) =>
        /\ queries = <<>>
        /\ pc # "returned"
        /\ pc = "raised" => (fault # "none" \/ error = "ValidationError")

\* C8: get_for_actor, get_for_director and get_similar_movies return
\* min(limit, max(0, N - skip)) rows of the N-row list.
C8_StubPageLength ==
    (pc = "returned" /\ call.method \in Stubs) =>
        /\ result.kind = "list"
        /\ Len(result.rows) = Min(call.limit, Max(0, Len(popular) - call.skip))

\* C9: get_by_genre returns a list, of at most `limit` records.
C9_ByGenreReturnsList ==
    (pc = "returned" /\ call.method = "get_by_genre") =>
        /\ result.kind = "list"
        /\ Len(result.rows) <= call.limit

\* C10: when the driver fails under `all`, the call raises: it returns no
\* list, and the session it opened is closed by then; a call that returns
\* has met no failure.
C10_FailuresPropagate ==
    /\ (call.method = "all" /\ fault # "none") =>
           /\ pc = "raised"
           /\ result = Unset
           /\ error # ""
           /\ sessionsOpen = 0
    /\ AllReturned => (fault = "none" /\ sessionsOpen = 0)

\* The favorites query failed inside the transaction of an open session.
C10_Witness ==
    /\ call.method = "all"
    /\ fault = "favorites"
    /\ pc = "raised"
    /\ sessionsAcquired = 1
    /\ sessionsOpen = 0

====
